---- MODULE Spec2Model ----
(***************************************************************************)
(* Model of serve.py: a development HTTP file server built on the Python   *)
(* standard library's HTTPServer / SimpleHTTPRequestHandler.               *)
(*                                                                         *)
(* Strings whose characters the code inspects (request targets, command    *)
(* line tokens, the words of a request line) are sequences of one-character*)
(* strings.  A filesystem path under the document root is a record         *)
(* [words, trailing]: the path components below the root and whether the   *)
(* path string ends in "/".                                                *)
(*                                                                         *)
(* Scope: well-formed HTTP/1.x request lines (method, target); request     *)
(* headers (conditional requests, Expect) are not modelled.  The inherited *)
(* library methods are modelled at the calls serve.py makes to them.       *)
(***************************************************************************)
EXTENDS Integers, Sequences, FiniteSets, TLC

VARIABLES
    argv,       \* sys.argv[1:], a sequence of tokens
    pc,         \* "start" | "serving" | "handling" | "done" | "exited"
    port,       \* port handed to run_server
    bind,       \* bind address handed to run_server
    exitCode,   \* -1 while the process runs, else the status of sys.exit
    listening,  \* the listening socket is bound and open
    out,        \* what was printed to standard output, in order
    files,      \* regular files under the document root
    unreadable, \* files whose open() fails with OSError
    command,    \* self.command of the request being handled
    path,       \* self.path of the request being handled
    resp,       \* the response written for the current request
    logLines,   \* the lines log_message wrote for the current request
    raised,     \* an exception escaped the handler of the current request
    fsAccess,   \* the handler of the current request touched the filesystem
    requestline,\* self.requestline, as its whitespace-separated words
    interrupted \* a KeyboardInterrupt was delivered to run_server

vars == <<argv, pc, port, bind, exitCode, listening, out, files, unreadable,
          command, path, resp, logLines, raised, fsAccess, requestline,
          interrupted>>

(***************************************************************************)
(* Bounds of the model.                                                    *)
(***************************************************************************)
MaxArgs == 3     \* tokens on the command line
MaxDepth == 2    \* segments in the path of a request target

(***************************************************************************)
(* String primitives (str.startswith, str.endswith, in, split, join).      *)
(***************************************************************************)
StartsWith(s, p) == Len(s) >= Len(p) /\ SubSeq(s, 1, Len(p)) = p

EndsWith(s, suf) ==
    Len(s) >= Len(suf) /\ SubSeq(s, Len(s) - Len(suf) + 1, Len(s)) = suf

Contains(s, c) == \E i \in 1..Len(s) : s[i] = c

\* index of the first c in s, 0 when there is none
IndexOf(s, c) ==
    IF Contains(s, c) THEN CHOOSE i \in 1..Len(s) :
                               s[i] = c /\ \A j \in 1..(i - 1) : s[j] # c
    ELSE 0

\* index of the last c in s, 0 when there is none
LastIndexOf(s, c) ==
    IF Contains(s, c) THEN CHOOSE i \in 1..Len(s) :
                               s[i] = c /\ \A j \in (i + 1)..Len(s) : s[j] # c
    ELSE 0

\* s.split(c, 1)[0]
SplitFirst(s, c) ==
    IF Contains(s, c) THEN SubSeq(s, 1, IndexOf(s, c) - 1) ELSE s

\* s.split(c)
RECURSIVE Split(_, _)
Split(s, c) ==
    IF ~Contains(s, c) THEN <<s>>
    ELSE <<SubSeq(s, 1, IndexOf(s, c) - 1)>>
         \o Split(SubSeq(s, IndexOf(s, c) + 1, Len(s)), c)

\* c.join(ws)
RECURSIVE Join(_, _)
Join(ws, c) ==
    IF ws = <<>> THEN <<>>
    ELSE IF Len(ws) = 1 THEN ws[1]
    ELSE ws[1] \o <<c>> \o Join(Tail(ws), c)

\* os.path.basename
Basename(s) == SubSeq(s, LastIndexOf(s, "/") + 1, Len(s))

(***************************************************************************)
(* Words used by the program and by the inputs of the model.               *)
(***************************************************************************)
Slash == <<"/">>
Dot == <<".">>
DotDot == <<".", ".">>
AssetsPrefix == <<"/", "a", "s", "s", "e", "t", "s", "/">>
IndexTarget == <<"/", "i", "n", "d", "e", "x", ".", "h", "t", "m", "l">>
HtmlSuffix == <<".", "h", "t", "m", "l">>
StaticSuffixes ==
    { <<".", "c", "s", "s">>, <<".", "j", "s">>, <<".", "p", "n", "g">>,
      <<".", "j", "p", "g">>, <<".", "j", "p", "e", "g">>,
      <<".", "g", "i", "f">>, <<".", "i", "c", "o">>,
      <<".", "w", "o", "f", "f">>, <<".", "w", "o", "f", "f", "2">> }

W_assets == <<"a", "s", "s", "e", "t", "s">>
W_docs == <<"d", "o", "c", "s">>
W_index == <<"i", "n", "d", "e", "x", ".", "h", "t", "m", "l">>
W_indexhtm == <<"i", "n", "d", "e", "x", ".", "h", "t", "m">>
W_appjs == <<"a", "p", "p", ".", "j", "s">>
W_dashboard == <<"d", "a", "s", "h", "b", "o", "a", "r", "d">>
W_encdots == <<"%", "2", "E", "%", "2", "E">>

GET == <<"G", "E", "T">>
HEAD == <<"H", "E", "A", "D">>
OPTIONS == <<"O", "P", "T", "I", "O", "N", "S">>
POST == <<"P", "O", "S", "T">>
HttpVersion == <<"H", "T", "T", "P", "/", "1", ".", "1">>

(***************************************************************************)
(* The filesystem under the document root.                                 *)
(***************************************************************************)
Dirs == { <<>>, <<W_assets>>, <<W_docs>> }
FileUniverse == { <<W_index>>, <<W_appjs>>, <<W_dashboard>>,
                  <<W_assets, W_appjs>> }

IsDir(p) == p.words \in Dirs
IsFile(p, fs) == ~p.trailing /\ p.words \in fs
Exists(p, fs) == IsDir(p) \/ IsFile(p, fs)

(***************************************************************************)
(* urllib.parse.unquote, for the escapes the inputs of the model use.      *)
(***************************************************************************)
RECURSIVE Unquote(_)
Unquote(s) ==
    IF s = <<>> THEN <<>>
    ELSE IF s[1] = "%" /\ Len(s) >= 3 /\ SubSeq(s, 2, 3) = <<"2", "E">>
         THEN <<".">> \o Unquote(SubSeq(s, 4, Len(s)))
    ELSE IF s[1] = "%" /\ Len(s) >= 3 /\ SubSeq(s, 2, 3) = <<"2", "F">>
         THEN <<"/">> \o Unquote(SubSeq(s, 4, Len(s)))
    ELSE <<s[1]>> \o Unquote(Tail(s))

(***************************************************************************)
(* posixpath.normpath, for a path with at most one leading slash.          *)
(***************************************************************************)
RECURSIVE NormComps(_, _, _)
NormComps(comps, new, initial) ==
    IF comps = <<>> THEN new
    ELSE LET comp == Head(comps) IN
         IF comp = <<>> \/ comp = Dot
         THEN NormComps(Tail(comps), new, initial)
         ELSE IF \/ comp # DotDot
                 \/ (~initial /\ new = <<>>)
                 \/ (new # <<>> /\ new[Len(new)] = DotDot)
         THEN NormComps(Tail(comps), Append(new, comp), initial)
         ELSE IF new # <<>>
         THEN NormComps(Tail(comps), SubSeq(new, 1, Len(new) - 1), initial)
         ELSE NormComps(Tail(comps), new, initial)

NormPath(s) ==
    IF s = <<>> THEN Dot
    ELSE LET initial == StartsWith(s, Slash)
             joined == Join(NormComps(Split(s, "/"), <<>>, initial), "/")
             res == IF initial THEN Slash \o joined ELSE joined
         IN IF res = <<>> THEN Dot ELSE res

(***************************************************************************)
(* SimpleHTTPRequestHandler.translate_path, called by do_GET and by the    *)
(* inherited send_head.                                                    *)
(***************************************************************************)
TranslatePath(p) ==
    LET noquery == SplitFirst(SplitFirst(p, "?"), "#")
        trailing == EndsWith(noquery, Slash)
        words == SelectSeq(Split(NormPath(Unquote(noquery)), "/"),
                           LAMBDA w : w # <<>>)
        kept == SelectSeq(words, LAMBDA w : w # Dot /\ w # DotDot)
    IN [words |-> kept, trailing |-> trailing]

\* urllib.parse.urlsplit(self.path).path for a target with no scheme/netloc
UrlPath(p) == SplitFirst(SplitFirst(p, "#"), "?")

(***************************************************************************)
(* log_message.  Its first positional argument is what the caller passes:  *)
(* the request line (a str) from log_request, the numeric status code from *)
(* log_error.                                                              *)
(***************************************************************************)
BrightGreen == "\\033[92m"
DarkGreen == "\\033[32m"
Red == "\\033[91m"
DarkRed == "\\033[31m"

StrArg(words) == [type |-> "str", words |-> words, val |-> 0]
IntArg(n) == [type |-> "int", words |-> <<>>, val |-> n]

LogRaise == [raised |-> TRUE, color |-> "", method |-> <<>>, status |-> <<>>]

LogMessage(args) ==
    IF args = <<>> THEN LogRaise                 \* args[0]: IndexError
    ELSE IF args[1].type # "str" THEN LogRaise   \* .split(): AttributeError
    ELSE IF args[1].words = <<>> THEN LogRaise   \* split()[0]: IndexError
    ELSE LET words == args[1].words
             method == words[1]
             status == IF Len(words) > 1 THEN words[2] ELSE <<"2", "0", "0">>
             color == IF StartsWith(status, <<"2">>) THEN BrightGreen
                      ELSE IF StartsWith(status, <<"3">>) THEN DarkGreen
                      ELSE IF StartsWith(status, <<"4">>) THEN Red
                      ELSE IF StartsWith(status, <<"5">>) THEN DarkRed
                      ELSE DarkGreen
         IN [raised |-> FALSE, color |-> color, method |-> method,
             status |-> status]

\* str(n) for n >= 0
DigitChars == <<"0", "1", "2", "3", "4", "5", "6", "7", "8", "9">>
RECURSIVE IntToStr(_)
IntToStr(n) ==
    IF n < 10 THEN <<DigitChars[n + 1]>>
    ELSE IntToStr(n \div 10) \o <<DigitChars[(n % 10) + 1]>>

\* BaseHTTPRequestHandler.log_request, reached through send_response
LogRequest(rl, code) ==
    LogMessage(<<StrArg(rl), StrArg(<<IntToStr(code)>>), StrArg(<<<<"-">>>>)>>)

\* BaseHTTPRequestHandler.log_error, reached through send_error
LogError(code) ==
    LogMessage(<<IntArg(code), StrArg(<<>>)>>)

(***************************************************************************)
(* end_headers: the header policy.                                         *)
(***************************************************************************)
MandatoryHeaders ==
    << <<"Access-Control-Allow-Origin", "*">>,
       <<"Access-Control-Allow-Methods", "GET, POST, OPTIONS">>,
       <<"Access-Control-Allow-Headers", "Content-Type, Authorization">>,
       <<"X-Content-Type-Options", "nosniff">>,
       <<"X-Frame-Options", "SAMEORIGIN">>,
       <<"X-XSS-Protection", "1; mode=block">>,
       <<"Referrer-Policy", "strict-origin-when-cross-origin">> >>

CacheControl(p) ==
    IF \E suf \in StaticSuffixes : EndsWith(p, suf)
    THEN << <<"Cache-Control", "public, max-age=31536000">> >>
    ELSE IF EndsWith(p, HtmlSuffix) \/ p = Slash
    THEN << <<"Cache-Control", "no-cache, must-revalidate">> >>
    ELSE <<>>

\* variant: the library's end_headers alone, the override not applied
EndHeadersNotOverridden(p, buf) == buf

\* the header block flushed for a response whose buffer holds buf
EndHeaders(p, buf) == buf \o MandatoryHeaders \o CacheControl(p)

(***************************************************************************)
(* Responses.  A handler run yields [resp, logs, raised, fs]: the response *)
(* written to the client, the log lines written, whether an exception left *)
(* the handler (socketserver then reports it and drops the request), and   *)
(* whether the run touched the filesystem.                                 *)
(***************************************************************************)
NoBody == [kind |-> "empty", words |-> <<>>]
FileBody(words) == [kind |-> "file", words |-> words]
ListingBody(words) == [kind |-> "listing", words |-> words]
ErrorBody == [kind |-> "error", words |-> <<>>]

NoResponse == [sent |-> FALSE, status |-> 0, headers |-> <<>>, body |-> NoBody]

ServerHeaders == << <<"Server", "SimpleHTTP">>, <<"Date", "now">> >>

Crashed(logs) ==
    [resp |-> NoResponse, logs |-> logs, raised |-> TRUE, fs |-> FALSE]

\* send_response(code); send_header(...) for each of extra; end_headers();
\* then the body
SendResponse(p, rl, code, extra, body, logs) ==
    LET lg == LogRequest(rl, code) IN
    IF lg.raised THEN Crashed(logs)
    ELSE [resp |-> [sent |-> TRUE, status |-> code,
                    headers |-> EndHeaders(p, ServerHeaders \o extra),
                    body |-> body],
          logs |-> Append(logs, lg), raised |-> FALSE, fs |-> FALSE]

\* BaseHTTPRequestHandler.send_error: log_error, send_response, headers,
\* end_headers, and the error page unless the command is HEAD
SendError(p, rl, cmd, code) ==
    LET lg == LogError(code) IN
    IF lg.raised THEN Crashed(<<>>)
    ELSE SendResponse(p, rl, code,
                      << <<"Connection", "close">>,
                         <<"Content-Type", "text/html;charset=utf-8">>,
                         <<"Content-Length", "n">> >>,
                      IF cmd # HEAD THEN ErrorBody ELSE NoBody, <<lg>>)

\* SimpleHTTPRequestHandler.send_head followed by the copy of the file that
\* do_GET makes (do_HEAD makes none)
SendHeadAt(p, rl, cmd, fs, locked) ==
    LET tp == TranslatePath(p)
        html == [words |-> Append(tp.words, W_index), trailing |-> FALSE]
        htm == [words |-> Append(tp.words, W_indexhtm), trailing |-> FALSE]
        index == IF IsFile(html, fs) THEN html ELSE htm
        isdir == IsDir(tp)
        target == IF isdir /\ IsFile(index, fs) THEN index ELSE tp
    IN IF isdir /\ ~EndsWith(UrlPath(p), Slash)
       THEN SendResponse(p, rl, 301,
                         << <<"Location", "redirect">>,
                            <<"Content-Length", "0">> >>, NoBody, <<>>)
       ELSE IF isdir /\ ~IsFile(index, fs)
       THEN SendResponse(p, rl, 200,
                         << <<"Content-type", "text/html; charset=utf-8">>,
                            <<"Content-Length", "n">> >>,
                         IF cmd # HEAD THEN ListingBody(tp.words) ELSE NoBody,
                         <<>>)
       ELSE IF target.trailing
       THEN SendError(p, rl, cmd, 404)
       ELSE IF target.words \notin fs \/ target.words \in locked
       THEN SendError(p, rl, cmd, 404)
       ELSE SendResponse(p, rl, 200,
                         << <<"Content-type", "guessed">>,
                            <<"Content-Length", "n">>,
                            <<"Last-Modified", "mtime">> >>,
                         IF cmd # HEAD THEN FileBody(target.words) ELSE NoBody,
                         <<>>)

\* send_head reads the filesystem (isdir, isfile, open) on every path
SendHead(p, rl, cmd, fs, locked) ==
    [SendHeadAt(p, rl, cmd, fs, locked) EXCEPT !.fs = TRUE]

(***************************************************************************)
(* do_GET: the SPA fallback decides the value of self.path that the        *)
(* inherited do_GET serves.                                                *)
(***************************************************************************)
ResolvePath(p, fs) ==
    IF ~Exists(TranslatePath(p), fs) /\ ~StartsWith(p, AssetsPrefix)
    THEN IF ~Contains(Basename(p), ".") THEN IndexTarget ELSE p
    ELSE p

HandleGET(p, rl, fs, locked) ==
    LET resolved == ResolvePath(p, fs)
        r == SendHead(resolved, rl, GET, fs, locked)
    IN [path |-> resolved, resp |-> r.resp, logs |-> r.logs,
        raised |-> r.raised, fsAccess |-> TRUE]

\* variant: OPTIONS answered through the file-serving path
HandleOPTIONSViaSendHead(p, rl) ==
    LET r == SendHead(p, rl, OPTIONS, FileUniverse, {})
    IN [path |-> p, resp |-> r.resp, logs |-> r.logs, raised |-> r.raised,
        fsAccess |-> r.fs]

\* do_OPTIONS
HandleOPTIONS(p, rl) ==
    LET r == SendResponse(p, rl, 200, <<>>, NoBody, <<>>)
    IN [path |-> p, resp |-> r.resp, logs |-> r.logs, raised |-> r.raised,
        fsAccess |-> r.fs]

\* the inherited do_HEAD
HandleHEAD(p, rl, fs, locked) ==
    LET r == SendHead(p, rl, HEAD, fs, locked)
    IN [path |-> p, resp |-> r.resp, logs |-> r.logs, raised |-> r.raised,
        fsAccess |-> r.fs]

\* a command with no do_<command> method: send_error(501)
HandleOther(p, rl, cmd) ==
    LET r == SendError(p, rl, cmd, 501)
    IN [path |-> p, resp |-> r.resp, logs |-> r.logs, raised |-> r.raised,
        fsAccess |-> r.fs]

(***************************************************************************)
(* main: argument parsing and port validation.                             *)
(***************************************************************************)
DefaultPort == 8000
MinPort == 1
MaxPort == 65535
DefaultBind == <<"1", "2", "7", ".", "0", ".", "0", ".", "1">>

T_0 == <<"0">>
T_1 == <<"1">>
T_3000 == <<"3", "0", "0", "0">>
T_65535 == <<"6", "5", "5", "3", "5">>
T_65536 == <<"6", "5", "5", "3", "6">>
T_abc == <<"a", "b", "c">>
T_bind == <<"-", "-", "b", "i", "n", "d">>
T_addr == <<"0", ".", "0", ".", "0", ".", "0">>
T_h == <<"-", "h">>
T_help == <<"-", "-", "h", "e", "l", "p">>
T_opt == <<"-", "-", "x">>
DashDash == <<"-", "-">>

Tokens == {T_0, T_1, T_3000, T_65535, T_65536, T_abc, T_bind, T_addr, T_h,
           T_opt}

\* the value of a decimal digit
DigitVal(c) == (CHOOSE i \in 1..10 : DigitChars[i] = c) - 1

\* str.isdigit
IsDigit(s) == s # <<>> /\ \A i \in 1..Len(s) : \E d \in 1..10 : DigitChars[d] = s[i]

RECURSIVE DigitsValue(_)
DigitsValue(s) ==
    IF s = <<>> THEN 0
    ELSE DigitsValue(SubSeq(s, 1, Len(s) - 1)) * 10 + DigitVal(s[Len(s)])

\* int(s): [ok, val]; ok is FALSE where int raises ValueError
ParseInt(s) ==
    IF IsDigit(s) THEN [ok |-> TRUE, val |-> DigitsValue(s)]
    ELSE IF s # <<>> /\ s[1] = "-" /\ IsDigit(Tail(s))
    THEN [ok |-> TRUE, val |-> 0 - DigitsValue(Tail(s))]
    ELSE IF s # <<>> /\ s[1] = "+" /\ IsDigit(Tail(s))
    THEN [ok |-> TRUE, val |-> DigitsValue(Tail(s))]
    ELSE [ok |-> FALSE, val |-> 0]

\* the loop over sys.argv[1:], from position i on: exit is -1 when the
\* loop runs to its end, else the status of the sys.exit it reaches
RECURSIVE ParseArgs(_, _, _, _)
ParseArgs(args, i, prt, bnd) ==
    IF i > Len(args)
    THEN [exit |-> -1, port |-> prt, bind |-> bnd, msg |-> ""]
    ELSE LET arg == args[i] IN
         IF IsDigit(arg)
         THEN ParseArgs(args, i + 1, DigitsValue(arg), bnd)
         ELSE IF arg \in {T_h, T_help}
         THEN [exit |-> 0, port |-> prt, bind |-> bnd, msg |-> "Usage"]
         ELSE IF arg = T_bind /\ i + 1 < Len(args) + 1
         THEN ParseArgs(args, i + 1, prt, args[i + 1])
         ELSE IF ~StartsWith(arg, DashDash)
         THEN IF ParseInt(arg).ok
              THEN ParseArgs(args, i + 1, ParseInt(arg).val, bnd)
              ELSE [exit |-> 1, port |-> prt, bind |-> bnd,
                    msg |-> "ERROR: Invalid port number"]
         ELSE ParseArgs(args, i + 1, prt, bnd)

\* variant: the range check admits 0 and 65536
MainResultLooseRange(args) ==
    LET r == ParseArgs(args, 1, DefaultPort, DefaultBind) IN
    IF r.exit # -1
    THEN [call |-> FALSE, exit |-> r.exit, port |-> r.port, bind |-> r.bind,
          msg |-> r.msg]
    ELSE IF ~(MinPort - 1 <= r.port /\ r.port <= MaxPort + 1)
    THEN [call |-> FALSE, exit |-> 1, port |-> r.port, bind |-> r.bind,
          msg |-> "ERROR: Port must be between 1 and 65535"]
    ELSE [call |-> TRUE, exit |-> -1, port |-> r.port, bind |-> r.bind,
          msg |-> ""]

\* main up to the call of run_server: call is TRUE when run_server is
\* reached with (port, bind)
MainResult(args) ==
    LET r == ParseArgs(args, 1, DefaultPort, DefaultBind) IN
    IF r.exit # -1
    THEN [call |-> FALSE, exit |-> r.exit, port |-> r.port, bind |-> r.bind,
          msg |-> r.msg]
    ELSE IF ~(MinPort <= r.port /\ r.port <= MaxPort)
    THEN [call |-> FALSE, exit |-> 1, port |-> r.port, bind |-> r.bind,
          msg |-> "ERROR: Port must be between 1 and 65535"]
    ELSE [call |-> TRUE, exit |-> -1, port |-> r.port, bind |-> r.bind,
          msg |-> ""]

(***************************************************************************)
(* run_server's handling of KeyboardInterrupt.                             *)
(***************************************************************************)
\* variant: the handler exits without httpd.server_close()
OnInterruptNoClose ==
    [out |-> <<"Shutting down server...", "Server stopped successfully">>,
     listening |-> TRUE, exit |-> 0]

OnInterrupt ==
    [out |-> <<"Shutting down server...", "Server stopped successfully">>,
     listening |-> FALSE, exit |-> 0]

(***************************************************************************)
(* Inputs: command lines, filesystems, requests.                           *)
(***************************************************************************)
RECURSIVE SeqsUpTo(_, _)
SeqsUpTo(S, n) ==
    IF n = 0 THEN {<<>>}
    ELSE LET shorter == SeqsUpTo(S, n - 1) IN
         shorter \cup {Append(q, x) : q \in shorter, x \in S}

Argvs == SeqsUpTo(Tokens, MaxArgs)
ServerArgvs == {<<>>, <<T_3000, T_bind, T_addr>>}

Segments == {W_assets, W_docs, W_index, W_appjs, W_dashboard, DotDot,
             W_encdots}
DirSegments == {W_assets, W_docs, DotDot}
Queries == {<<>>, <<"?", "v">>, <<"?", "a", ".", "j", "s">>}

\* "/d1/.../dk" for at most n directory segments ("" for none)
RECURSIVE DirPrefixes(_)
DirPrefixes(n) ==
    IF n = 0 THEN {<<>>}
    ELSE LET shorter == DirPrefixes(n - 1) IN
         shorter \cup {q \o Slash \o d : q \in shorter, d \in DirSegments}

BasePaths ==
    {q \o Slash \o s : q \in DirPrefixes(MaxDepth - 1), s \in Segments}
Targets ==
    {p \o q : p \in {Slash} \cup BasePaths \cup {b \o Slash : b \in BasePaths},
              q \in Queries}
Commands == {GET, HEAD, OPTIONS, POST}

(***************************************************************************)
(* The state machine.                                                      *)
(***************************************************************************)
Idle ==
    /\ command = <<>>
    /\ path = <<>>
    /\ requestline = <<>>
    /\ resp = NoResponse
    /\ logLines = <<>>
    /\ raised = FALSE
    /\ fsAccess = FALSE

InitCommon ==
    /\ pc = "start"
    /\ port = 0
    /\ bind = <<>>
    /\ exitCode = -1
    /\ listening = FALSE
    /\ out = <<>>
    /\ interrupted = FALSE
    /\ Idle

Init ==
    /\ InitCommon
    /\ argv \in ServerArgvs
    /\ files \in SUBSET FileUniverse
    /\ unreadable \in SUBSET (files \cap {<<W_index>>})

InitCli ==
    /\ InitCommon
    /\ argv \in Argvs
    /\ files = FileUniverse
    /\ unreadable = {}

\* main, and run_server up to serve_forever; bindOk is FALSE when creating
\* the HTTPServer raises OSError
Main(bindOk) ==
    /\ pc = "start"
    /\ LET m == MainResult(argv) IN
       IF ~m.call
       THEN /\ pc' = "exited"
            /\ exitCode' = m.exit
            /\ out' = Append(out, m.msg)
            /\ UNCHANGED <<port, bind, listening>>
       ELSE /\ port' = m.port
            /\ bind' = m.bind
            /\ IF bindOk
               THEN /\ pc' = "serving"
                    /\ listening' = TRUE
                    /\ out' = Append(out, "Starting server")
                    /\ UNCHANGED exitCode
               ELSE /\ pc' = "exited"
                    /\ exitCode' = 1
                    /\ out' = Append(out, "ERROR: Starting server")
                    /\ UNCHANGED listening
    /\ UNCHANGED <<argv, files, unreadable, command, path, resp, logLines,
                   raised, fsAccess, requestline, interrupted>>

\* the accept loop hands a parsed request to a fresh handler
Receive(cmd, target) ==
    /\ pc = "serving"
    /\ pc' = "handling"
    /\ command' = cmd
    /\ path' = target
    /\ requestline' = <<cmd, target, HttpVersion>>
    /\ UNCHANGED <<argv, port, bind, exitCode, listening, out, files,
                   unreadable, resp, logLines, raised, fsAccess, interrupted>>

Handled(r) ==
    /\ pc' = "done"
    /\ path' = r.path
    /\ resp' = r.resp
    /\ logLines' = r.logs
    /\ raised' = r.raised
    /\ fsAccess' = r.fsAccess
    /\ UNCHANGED <<argv, port, bind, exitCode, listening, out, files,
                   unreadable, command, requestline, interrupted>>

DoGET ==
    /\ pc = "handling"
    /\ command = GET
    /\ Handled(HandleGET(path, requestline, files, unreadable))

DoOPTIONS ==
    /\ pc = "handling"
    /\ command = OPTIONS
    /\ Handled(HandleOPTIONS(path, requestline))

DoHEAD ==
    /\ pc = "handling"
    /\ command = HEAD
    /\ Handled(HandleHEAD(path, requestline, files, unreadable))

DoOther ==
    /\ pc = "handling"
    /\ command \notin {GET, OPTIONS, HEAD}
    /\ Handled(HandleOther(path, requestline, command))

\* the handler is finished and the accept loop takes the next connection
Finish ==
    /\ pc = "done"
    /\ pc' = "serving"
    /\ command' = <<>>
    /\ path' = <<>>
    /\ requestline' = <<>>
    /\ resp' = NoResponse
    /\ logLines' = <<>>
    /\ raised' = FALSE
    /\ fsAccess' = FALSE
    /\ UNCHANGED <<argv, port, bind, exitCode, listening, out, files,
                   unreadable, interrupted>>

\* KeyboardInterrupt while run_server is inside serve_forever
Interrupt ==
    /\ pc \in {"serving", "handling", "done"}
    /\ pc' = "exited"
    /\ interrupted' = TRUE
    /\ out' = out \o OnInterrupt.out
    /\ listening' = OnInterrupt.listening
    /\ exitCode' = OnInterrupt.exit
    /\ UNCHANGED <<argv, port, bind, files, unreadable, command, path, resp,
                   logLines, raised, fsAccess, requestline>>

Next ==
    \/ \E bindOk \in BOOLEAN : Main(bindOk)
    \/ \E cmd \in Commands, target \in Targets : Receive(cmd, target)
    \/ DoGET
    \/ DoOPTIONS
    \/ DoHEAD
    \/ DoOther
    \/ Finish
    \/ Interrupt

Spec == Init /\ [][Next]_vars

NextCli ==
    \/ \E bindOk \in BOOLEAN : Main(bindOk)
    \/ Interrupt

CliSpec == InitCli /\ [][NextCli]_vars

(***************************************************************************)
(* Properties.                                                             *)
(***************************************************************************)
RawTarget == requestline[2]
RawPath == UrlPath(RawTarget)

MandatoryNames ==
    {"Access-Control-Allow-Origin", "Access-Control-Allow-Methods",
     "Access-Control-Allow-Headers", "X-Content-Type-Options",
     "X-Frame-Options", "X-XSS-Protection", "Referrer-Policy"}

HeaderNames(h) == {h[i][1] : i \in 1..Len(h)}
HeaderValues(h, name) == {h[i][2] : i \in {j \in 1..Len(h) : h[j][1] = name}}
HeaderCount(h, name) == Cardinality({i \in 1..Len(h) : h[i][1] = name})

HasMandatoryHeaders(h) == MandatoryNames \subseteq HeaderNames(h)

IndexServable == <<W_index>> \in files \ unreadable

\* C1: a GET whose path has a final segment without ".", is not under
\* /assets/ and names no existing file is served as /index.html: self.path
\* is rewritten, and a readable index.html comes back with status 200.
C1_SpaFallback ==
    (/\ pc = "done"
     /\ command = GET
     /\ Basename(RawPath) # <<>>
     /\ ~Contains(Basename(RawPath), ".")
     /\ ~StartsWith(RawTarget, AssetsPrefix)
     /\ ~Exists(TranslatePath(RawTarget), files))
    => /\ path = IndexTarget
       /\ IndexServable => /\ resp.sent
                            /\ resp.status = 200
                            /\ resp.body = FileBody(<<W_index>>)

\* C2: a GET under /assets/ is never rewritten, and a missing file there is
\* answered with 404, not with index.html.
C2_AssetsNeverFallBack ==
    (/\ pc = "done"
     /\ command = GET
     /\ StartsWith(RawTarget, AssetsPrefix))
    => /\ path = RawTarget
       /\ ~Exists(TranslatePath(RawTarget), files)
            => /\ resp.sent
               /\ resp.status = 404
               /\ resp.body # FileBody(<<W_index>>)

C4_CachePolicy ==
    (pc = "done" /\ resp.sent)
    => LET rp == UrlPath(path)
           static == \E suf \in StaticSuffixes : EndsWith(rp, suf)
           html == rp = Slash \/ EndsWith(rp, HtmlSuffix)
           cc == HeaderValues(resp.headers, "Cache-Control")
       IN /\ ("public, max-age=31536000" \in cc) <=> static
          /\ ("no-cache, must-revalidate" \in cc) <=> (html /\ ~static)
          /\ (cc = {}) <=> (~static /\ ~html)

\* the request cannot be served: what self.path names after resolution is
\* no directory and no readable file
GetFails ==
    LET tp == TranslatePath(path) IN
    /\ ~IsDir(tp)
    /\ (tp.trailing \/ tp.words \notin files \/ tp.words \in unreadable)

\* C5: a GET that fails is answered with an error status carrying the
\* mandatory headers, writes one log line, and leaves the server serving.
C5_ErrorsAnswered ==
    (pc = "done" /\ command = GET /\ GetFails)
    => /\ resp.sent
       /\ resp.status \in {403, 404, 500}
       /\ HasMandatoryHeaders(resp.headers)
       /\ Len(logLines) = 1
       /\ listening
       /\ exitCode = -1

ColorOfStatus(code) ==
    IF code \div 100 = 2 THEN BrightGreen
    ELSE IF code \div 100 = 3 THEN DarkGreen
    ELSE IF code \div 100 = 4 THEN Red
    ELSE IF code \div 100 = 5 THEN DarkRed
    ELSE DarkGreen

\* C6: a logged request is colored by the leading digit of the status of
\* its response, and the line shows the method and that status.
C6_LogColor ==
    (pc = "done" /\ resp.sent /\ logLines # <<>>)
    => \A i \in 1..Len(logLines) :
          /\ logLines[i].color = ColorOfStatus(resp.status)
          /\ logLines[i].method = command
          /\ logLines[i].status = IntToStr(resp.status)

\* C7: OPTIONS on any path is answered 200 with the mandatory headers and an
\* empty body, without touching the filesystem.
C7_Options ==
    (pc = "done" /\ command = OPTIONS)
    => /\ resp.sent
       /\ resp.status = 200
       /\ HasMandatoryHeaders(resp.headers)
       /\ resp.body = NoBody
       /\ ~fsAccess
       /\ ~raised

C7_Witness ==
    /\ pc = "done"
    /\ command = OPTIONS
    /\ StartsWith(RawTarget, AssetsPrefix)
    /\ ~Exists(TranslatePath(RawTarget), files)
    /\ resp.status = 200

PortTokens == {T_1, T_3000, T_65535}

\* the last numeric token of a command line of address and port tokens
RECURSIVE LastPort(_, _)
LastPort(args, dflt) ==
    IF args = <<>> THEN dflt
    ELSE IF args[Len(args)] \in PortTokens
    THEN DigitsValue(args[Len(args)])
    ELSE LastPort(SubSeq(args, 1, Len(args) - 1), dflt)

\* "--bind <address>" with nothing else but valid ports on the command line
BindGiven ==
    \E i \in 1..(Len(argv) - 1) :
        /\ argv[i] = T_bind
        /\ argv[i + 1] = T_addr
        /\ \A j \in (1..Len(argv)) \ {i, i + 1} : argv[j] \in PortTokens

\* C8: with "--bind <address>" main reaches run_server with that address
\* and the port given by the numeric argument (or 8000).
C8_BindAddress ==
    (pc # "start" /\ BindGiven)
    => /\ bind = T_addr
       /\ port = LastPort(argv, DefaultPort)

\* the arguments main reads as a port: every token that is no option
IsOption(tok) == tok \in {T_h, T_help} \/ StartsWith(tok, DashDash)
PortArgs == SelectSeq(argv, LAMBDA tok : ~IsOption(tok))
NoHelp == \A i \in 1..Len(argv) : argv[i] \notin {T_h, T_help}
NonNumeric(tok) == tok \in {T_abc, T_addr}
Rejected == pc = "exited" /\ exitCode = 1 /\ port = 0 /\ ~listening

\* C9: a non-numeric port argument, or a final port argument of 0 or 65536,
\* ends the process with status 1 before run_server; a final port argument
\* of 1 or 65535 reaches run_server with that port.
C9_PortValidation ==
    (pc # "start" /\ NoHelp /\ PortArgs # <<>>)
    => LET last == PortArgs[Len(PortArgs)]
           bad == \E i \in 1..Len(PortArgs) : NonNumeric(PortArgs[i])
       IN /\ bad => Rejected
          /\ (~bad /\ last \in {T_0, T_65536}) => Rejected
          /\ (~bad /\ last = T_1) => port = 1
          /\ (~bad /\ last = T_65535) => port = 65535

C9_Witness ==
    /\ argv = <<T_65536>>
    /\ pc = "exited"
    /\ exitCode = 1

\* C10: an interrupt while serving ends the process with status 0, the
\* listening socket closed and the shutdown notice printed; and an interrupt
\* can be taken in every serving state.
C10_InterruptShutdown ==
    /\ interrupted => /\ pc = "exited"
                       /\ exitCode = 0
                       /\ ~listening
                       /\ \E i \in 1..Len(out) :
                              out[i] = "Shutting down server..."
    /\ pc \in {"serving", "handling", "done"} => ENABLED Interrupt

C10_Witness ==
    /\ interrupted
    /\ pc = "exited"
    /\ port = 8000

====
